---- MODULE Spec2Model ----
(***************************************************************************)
(* Inspect over std::variant, std::optional and adt::Result.               *)
(*                                                                         *)
(* A behaviour is a client program in the style of main.cpp: it holds one  *)
(* subject value (a variant<A,B,C>, an optional<int>, a Result<int,        *)
(* ErrorCode>, a Result<int,int> or a plain int), assigns to it, and calls *)
(* Inspect on it at one call site: a list of lambdas, a result type R and the value   *)
(* category the subject is passed with.  What the compiler decides (which  *)
(* Inspect overload is viable, which static_assert fires, whether the body *)
(* is well-formed) and what the accepted call does at run time are both    *)
(* recorded in the variable outcome; calls counts the calls made on the    *)
(* subject since it was last assigned.                                     *)
(***************************************************************************)
EXTENDS Integers, Sequences, FiniteSets, TLC

VARIABLES subject, category, lambdas, R, outcome, calls

vars == <<subject, category, lambdas, R, outcome, calls>>

\* Longest handler list a call is given.
MaxLambdas == 3

\* Most calls of the call site on a subject between two assignments to it.
MaxCalls == 2

(***************************************************************************)
(* Payload types and values                                                *)
(***************************************************************************)

\* enum class ErrorCode { ERROR_ONE, ERROR_TWO }
ERROR_ONE == 0

ERROR_TWO == 1

ErrorCodes == {ERROR_ONE, ERROR_TWO}

\* The int payloads main.cpp stores: 42 in the optional, 100 and 55 in the
\* two Results.
IntVals == {42, 55, 100}

\* A payload is a typed value; the empty structs A, B, C carry v = 0.
Payload(t, v) == [type |-> t, v |-> v]

\* Ok<T>(val) and Error<E>(err): the case-tagged wrappers, and their get().
Ok(p) == [type |-> "Ok<" \o p.type \o ">", v |-> p.v]

Error(p) == [type |-> "Error<" \o p.type \o ">", v |-> p.v]

Get(w) == w.v

(***************************************************************************)
(* Subjects                                                                *)
(***************************************************************************)

\* std::variant<A, B, C> my_variant: the alternatives in declaration order and
\* the zero-based index of the active one.
VariantAlts == <<"A", "B", "C">>

Variant(i) == [shape |-> "variant", index |-> i]

\* std::optional<int> my_opt.
ValueType == "int"

Optional(has, v) == [shape |-> "optional", has |-> has, v |-> v]

Nullopt == Optional(FALSE, 0)

\* A plain int, a type of none of the three shapes.
Scalar(v) == [shape |-> "int", v |-> v]

\* adt::Result<T, E>: _data is a variant<Ok<T>, Error<E>>.
Result(T, E, data) == [shape |-> "expected", T |-> T, E |-> E, data |-> data]

has_value(r) == r.data.type = "Ok<" \o r.T \o ">"

has_error(r) == r.data.type = "Error<" \o r.E \o ">"

\* ensure_error with a fault seeded: it tests has_value(), as ensure_value
\* does.
ensure_error_pasted(r) == has_value(r)

\* ensure_value / ensure_error: TRUE when the accessor goes on, FALSE when it
\* reaches std::abort().
ensure_value(r) == has_value(r)

ensure_error(r) == has_error(r)

\* ValT with a fault seeded: value() returns the bare payload whatever T, E.
ValT_bare(r) == r.T

\* The type value() and error() return: the wrapper when T and E are the same
\* type, the bare payload type otherwise.
ValT(r) == IF r.T = r.E THEN "Ok<" \o r.T \o ">" ELSE r.T

ErrT(r) == IF r.T = r.E THEN "Error<" \o r.E \o ">" ELSE r.E

\* value() and error() on a Result in the matching state.
value(r) == IF r.T = r.E THEN r.data ELSE Payload(r.T, Get(r.data))

error(r) == IF r.T = r.E THEN r.data ELSE Payload(r.E, Get(r.data))

(***************************************************************************)
(* Handlers: a lambda is its parameter type ("none" for [](), "auto" for a *)
(* generic [](auto)), how the parameter is taken ("val" for T, "rref" for  *)
(* T&&), the type its body returns and the body itself.                    *)
(***************************************************************************)
Lambda(param, mode, ret, body) ==
  [param |-> param, mode |-> mode, ret |-> ret, body |-> body]

\* test_variant
hA_an == Lambda("A", "val", "cstr", "an")

hAuto_a == Lambda("auto", "val", "cstr", "a")

hA_char == Lambda("A", "val", "char", "A")

hB_char == Lambda("B", "val", "char", "B")

hC_char == Lambda("C", "val", "char", "C")

\* [](A &&value) { return "an"; }
hA_rref == Lambda("A", "rref", "cstr", "an")

\* [](B value) { return std::string("b"); }
hB_str == Lambda("B", "val", "string", "b")

\* [](auto value) -> const std::string & { return name; }, name a global
\* std::string holding "an".
hAuto_ref == Lambda("auto", "val", "string_ref", "an")

\* test_optional
hInt_print == Lambda("int", "val", "void", "printValue")

hNone_print == Lambda("none", "val", "void", "printNoValue")

hInt_fmt == Lambda("int", "val", "string", "fmtValue")

hNone_lit == Lambda("none", "val", "cstr", "No Value")

\* [](int &&value) { return "Value: " + std::to_string(value); }
hInt_rref == Lambda("int", "rref", "string", "fmtValue")

\* test_result
hErr_fmt == Lambda("ErrorCode", "val", "string", "fmtError")

hErr_print == Lambda("ErrorCode", "val", "void", "printError")

hOk_fmt == Lambda("Ok<int>", "val", "string", "fmtValue")

hError_fmt == Lambda("Error<int>", "val", "string", "fmtError")

\* The text a body produces for its argument (args is <<>> or <<payload>>):
\* std::to_string of the int, of static_cast<int>(err) or of get().
Apply(h, args) ==
  CASE h.body = "fmtValue" -> "Value: " \o ToString(args[1].v)
    [] h.body = "fmtError" -> "Error: " \o ToString(args[1].v)
    [] h.ret = "void" -> ""
    [] OTHER -> h.body

(***************************************************************************)
(* overloaded<Lambdas...>: one visitor that inherits every lambda's        *)
(* operator().  A call on it is decided by overload resolution over the    *)
(* inherited call operators, not by the position of a lambda in the list.  *)
(***************************************************************************)

\* An argument expression's type and value category.
ArgType(t, cat) == [type |-> t, cat |-> cat]

\* std::declval<T>() for a type T that is no reference: an rvalue.
DeclVal(t) == ArgType(t, "rvalue")

TypesOf(args, cat) == [k \in 1..Len(args) |-> ArgType(args[k].type, cat)]

\* Rank with a fault seeded: the wrappers also convert back to their payload.
Rank_unwrapping(from, to) ==
  IF from = to THEN 0
  ELSE IF to \in {"Ok<" \o from \o ">", "Error<" \o from \o ">"} THEN 2
  ELSE IF from \in {"Ok<" \o to \o ">", "Error<" \o to \o ">"} THEN 2
  ELSE 3

\* The implicit conversion of an argument of type from to a parameter of type
\* to: 0 an exact match, 2 a user-defined conversion through the converting
\* constructors Ok(T val) and Error(E err), 3 no conversion.
Rank(from, to) ==
  IF from = to THEN 0
  ELSE IF to \in {"Ok<" \o from \o ">", "Error<" \o from \o ">"} THEN 2
  ELSE 3

\* The lambda's operator() is a viable candidate for the arguments: T takes
\* any argument convertible to T, T&& an rvalue of type T or the temporary a
\* conversion makes.
Viable(h, argTypes) ==
  CASE h.param = "none" -> argTypes = <<>>
    [] Len(argTypes) # 1 -> FALSE
    [] h.param = "auto" -> TRUE
    [] h.mode = "rref" ->
         \/ Rank(argTypes[1].type, h.param) = 0 /\ argTypes[1].cat = "rvalue"
         \/ Rank(argTypes[1].type, h.param) = 2
    [] OTHER -> Rank(argTypes[1].type, h.param) < 3

ConvRank(h, argTypes) ==
  IF h.param \in {"none", "auto"} THEN 0
  ELSE Rank(argTypes[1].type, h.param)

\* Better with a fault seeded: a non-template is not preferred to a template.
Better_rank_only(g, h, argTypes) ==
  ConvRank(g, argTypes) < ConvRank(h, argTypes)

\* Candidate g is a better match than candidate h: a better conversion, or
\* the same conversion with g not a template and h a template.
Better(g, h, argTypes) ==
  \/ ConvRank(g, argTypes) < ConvRank(h, argTypes)
  \/ /\ ConvRank(g, argTypes) = ConvRank(h, argTypes)
     /\ g.param # "auto"
     /\ h.param = "auto"

\* Best with a fault seeded: the first viable lambda in declaration order wins.
Best_first_match(hs, argTypes) ==
  {i \in 1..Len(hs) :
     /\ Viable(hs[i], argTypes)
     /\ \A j \in 1..(i - 1) : ~Viable(hs[j], argTypes)}

\* using Ts::operator()...: the positions of the best viable candidate, empty
\* when no candidate is viable or when the call is ambiguous.
Best(hs, argTypes) ==
  {i \in 1..Len(hs) :
     /\ Viable(hs[i], argTypes)
     /\ \A j \in 1..Len(hs) \ {i} :
          Viable(hs[j], argTypes) => Better(hs[i], hs[j], argTypes)}

\* The position overload resolution selects, 0 when the call is ill-formed.
Selected(hs, argTypes) ==
  IF Best(hs, argTypes) = {} THEN 0 ELSE CHOOSE i \in Best(hs, argTypes) : TRUE

\* std::is_invocable_v<overloaded<Lambdas...>, Args...>
is_invocable(hs, argTypes) == Selected(hs, argTypes) # 0

\* The result type of the call visitor(args...), for a well-formed call.
InvokeResult(hs, argTypes) == hs[Selected(hs, argTypes)].ret

\* visitor(args...): the lambda that runs, what it is given and what it
\* returns.
Call(hs, args, cat) ==
  LET i == Selected(hs, TypesOf(args, cat))
  IN [idx |-> i, args |-> args,
      ret |-> IF i = 0 THEN [type |-> "none", val |-> ""]
              ELSE [type |-> hs[i].ret, val |-> Apply(hs[i], args)]]

(***************************************************************************)
(* Result types                                                            *)
(***************************************************************************)

\* The type auto deduces from an expression of type t, and the type of the
\* object an initialisation reads from it: a reference gives its referent.
Decay(t) == IF t = "string_ref" THEN "string" ELSE t

\* R{expr} for an expression of type from: list-initialisation of R.  void{x}
\* is ill-formed and so is R{void expression}.
ListInit(r, from) ==
  CASE r = "void" \/ from = "void" -> FALSE
    [] r = Decay(from) -> TRUE
    [] r = "string" -> Decay(from) \in {"cstr", "string_view", "char"}
    [] r = "string_view" -> Decay(from) \in {"cstr", "string"}
    [] OTHER -> FALSE

\* The value R{expr} holds.
Convert(r, ret) == [type |-> r, val |-> ret.val]

\* What a function declared constexpr auto returns for return expr: an R when
\* R is pinned, otherwise a value of the decayed type of expr.
Returned(r, ret) ==
  IF r = "deduce" THEN [type |-> Decay(ret.type), val |-> ret.val]
  ELSE Convert(r, ret)

(***************************************************************************)
(* Outcomes of a call                                                      *)
(***************************************************************************)
NoRet == [type |-> "none", val |-> ""]

NoOutcome ==
  [overload |-> "uncalled", accepted |-> FALSE, asserts |-> {},
   invoked |-> <<>>, ret |-> NoRet, aborted |-> FALSE]

\* The call does not compile.
IllFormed(overload, asserts) ==
  [overload |-> overload, accepted |-> FALSE, asserts |-> asserts,
   invoked |-> <<>>, ret |-> NoRet, aborted |-> FALSE]

\* The call compiles; at run time it made the calls in invoked.
Ran(overload, invoked, ret, aborted) ==
  [overload |-> overload, accepted |-> TRUE, asserts |-> {},
   invoked |-> invoked, ret |-> ret, aborted |-> aborted]

(***************************************************************************)
(* traits                                                                  *)
(***************************************************************************)

\* A type with a const or reference qualification on it; a subject record by
\* itself stands for its own unqualified type.
Ref(q, s) == [qual |-> q, of |-> s]

Quals == {"&", "const &", "&&", "const"}

\* The type deduced for the forwarding reference Variant &&variant: T & for
\* an lvalue argument, T for an rvalue.
Deduced(s, cat) == IF cat = "lvalue" THEN Ref("&", s) ELSE s

\* remove_cvref_t with a fault seeded: the qualification is kept.
remove_cvref_t_keep(t) == t

remove_cvref_t(t) == IF "qual" \in DOMAIN t THEN t.of ELSE t

\* The member functions a call can name on an object of the type, whatever
\* its qualification.
Members(t) ==
  LET s == IF "qual" \in DOMAIN t THEN t.of ELSE t
  IN CASE s.shape = "variant" -> {"index", "valueless_by_exception"}
       [] s.shape = "optional" -> {"has_value", "value", "reset"}
       [] s.shape = "expected" -> {"has_value", "has_error", "value", "error"}
       [] OTHER -> {}

\* The partial specialisations match the unqualified std::variant<Args...>
\* and std::optional<T> only.
is_variant_impl(t) == "qual" \notin DOMAIN t /\ t.shape = "variant"

is_variant(t) == is_variant_impl(remove_cvref_t(t))

is_optional_impl(t) == "qual" \notin DOMAIN t /\ t.shape = "optional"

is_optional(t) == is_optional_impl(remove_cvref_t(t))

\* has_value(), value() and error() can be named on std::declval<T>().
is_expected_impl(t) == {"has_value", "value", "error"} \subseteq Members(t)

is_expected(t) == is_expected_impl(remove_cvref_t(t)) /\ ~is_optional(t)

\* is_exhaustive_variant with a fault seeded: the fold taken with ||, not &&.
is_exhaustive_variant_any(hs, alts) ==
  \E k \in 1..Len(alts) : is_invocable(hs, <<DeclVal(alts[k])>>)

\* is_exhaustive_variant with a fault seeded: one lambda per alternative is
\* required on top of the fold.
is_exhaustive_variant_counted(hs, alts) ==
  /\ Len(hs) = Len(alts)
  /\ \A k \in 1..Len(alts) : is_invocable(hs, <<DeclVal(alts[k])>>)

\* (std::is_invocable_v<Visitor, Alts> && ...)
is_exhaustive_variant(hs, alts) ==
  \A k \in 1..Len(alts) : is_invocable(hs, <<DeclVal(alts[k])>>)

is_exhaustive_optional(hs) ==
  is_invocable(hs, <<DeclVal(ValueType)>>) /\ is_invocable(hs, <<>>)

\* ValT and ErrT are decltype(std::declval<Exp>().value()) and (...error()):
\* references of the category Exp is passed with.
is_exhaustive_expected(hs, exp, cat) ==
  /\ is_invocable(hs, <<ArgType(ValT(exp), cat)>>)
  /\ is_invocable(hs, <<ArgType(ErrT(exp), cat)>>)

(***************************************************************************)
(* diagnostic: the static assertions validate() raises, each by the type   *)
(* it names (MISSING_HANDLER_FOR_TYPE<T>, MISSING_HANDLER_FOR_NONE<Opt>).  *)
(***************************************************************************)
variant_validator(hs, alts) ==
  {alts[k] : k \in {n \in 1..Len(alts) : ~is_invocable(hs, <<DeclVal(alts[n])>>)}}

\* optional_validator with a fault seeded: the empty state is not checked.
optional_validator_value_only(hs) ==
  IF is_invocable(hs, <<DeclVal(ValueType)>>) THEN {} ELSE {ValueType}

optional_validator(hs) ==
  (IF is_invocable(hs, <<DeclVal(ValueType)>>) THEN {} ELSE {ValueType})
    \cup (IF is_invocable(hs, <<>>) THEN {} ELSE {"None"})

\* Here ValT and ErrT are remove_cvref_t of what value() and error() return.
expected_validator(hs, exp) ==
  (IF is_invocable(hs, <<DeclVal(ValT(exp))>>) THEN {} ELSE {ValT(exp)})
    \cup (IF is_invocable(hs, <<DeclVal(ErrT(exp))>>) THEN {} ELSE {ErrT(exp)})

\* A diagnostic overload: void, it only runs the validator.  It compiles when
\* the validator raises nothing, and then it calls no handler.
Diagnostic(asserts) ==
  IF asserts # {} THEN IllFormed("diagnostic", asserts)
  ELSE Ran("diagnostic", <<>>, [type |-> "void", val |-> ""], FALSE)

(***************************************************************************)
(* Inspect, the dispatching overloads                                      *)
(***************************************************************************)

\* VisitWellFormed with a fault seeded: results that differ are accepted
\* when they convert to one of them (const char* and std::string).
VisitWellFormed_common(hs, alts, cat) ==
  /\ \A k \in 1..Len(alts) : is_invocable(hs, <<ArgType(alts[k], cat)>>)
  /\ LET rets == {InvokeResult(hs, <<ArgType(alts[k], cat)>>) :
                    k \in 1..Len(alts)}
     IN Cardinality(rets) = 1 \/ rets = {"cstr", "string"}

\* std::visit(visitor, std::forward<Variant>(variant)): the visitor must be
\* callable with every alternative as the variant is passed, with one and the
\* same result type; the call made is the active alternative's.
VisitWellFormed(hs, alts, cat) ==
  /\ \A k \in 1..Len(alts) : is_invocable(hs, <<ArgType(alts[k], cat)>>)
  /\ \A k \in 1..Len(alts) :
       InvokeResult(hs, <<ArgType(alts[k], cat)>>)
         = InvokeResult(hs, <<ArgType(alts[1], cat)>>)

Visit(hs, v, cat) == Call(hs, <<Payload(VariantAlts[v.index + 1], 0)>>, cat)

InspectVariant(r, v, cat, hs) ==
  LET wf == /\ VisitWellFormed(hs, VariantAlts, cat)
            /\ r # "deduce" =>
                 ListInit(r, InvokeResult(hs, <<ArgType(VariantAlts[1], cat)>>))
  IN IF ~wf THEN IllFormed("dispatch", {})
     ELSE LET c == Visit(hs, v, cat)
          IN Ran("dispatch", <<[idx |-> c.idx, args |-> c.args]>>,
                 Returned(r, c.ret), FALSE)

\* InspectOptional with a fault seeded: the test of opt inverted.
InspectOptional_inverted(r, opt, cat, hs) ==
  LET wf == /\ optional_validator(hs) = {}
            /\ is_invocable(hs, <<ArgType(ValueType, cat)>>)
            /\ LET some == InvokeResult(hs, <<ArgType(ValueType, cat)>>)
                   none == InvokeResult(hs, <<>>)
               IN IF r = "deduce" THEN some = none
                  ELSE ListInit(r, some) /\ ListInit(r, none)
  IN IF ~wf THEN IllFormed("dispatch", optional_validator(hs))
     ELSE LET c == IF ~opt.has
                   THEN Call(hs, <<Payload(ValueType, opt.v)>>, cat)
                   ELSE Call(hs, <<>>, cat)
          IN Ran("dispatch", <<[idx |-> c.idx, args |-> c.args]>>,
                 Returned(r, c.ret), FALSE)

\* if (opt) visitor(*std::forward<Opt>(opt)) else visitor(): both return
\* statements are instantiated, so with a deduced result they must agree on
\* the type and with a pinned R both must list-initialise R.
InspectOptional(r, opt, cat, hs) ==
  LET wf == /\ optional_validator(hs) = {}
            /\ is_invocable(hs, <<ArgType(ValueType, cat)>>)
            /\ LET some == InvokeResult(hs, <<ArgType(ValueType, cat)>>)
                   none == InvokeResult(hs, <<>>)
               IN IF r = "deduce" THEN some = none
                  ELSE ListInit(r, some) /\ ListInit(r, none)
  IN IF ~wf THEN IllFormed("dispatch", optional_validator(hs))
     ELSE LET c == IF opt.has
                   THEN Call(hs, <<Payload(ValueType, opt.v)>>, cat)
                   ELSE Call(hs, <<>>, cat)
          IN Ran("dispatch", <<[idx |-> c.idx, args |-> c.args]>>,
                 Returned(r, c.ret), FALSE)

\* InspectExpected with a fault seeded: the test of has_value() inverted.
InspectExpected_inverted(r, exp, cat, hs) ==
  LET val == InvokeResult(hs, <<ArgType(ValT(exp), cat)>>)
      err == InvokeResult(hs, <<ArgType(ErrT(exp), cat)>>)
      wf == IF r = "deduce" THEN val = err
            ELSE ListInit(r, val) /\ ListInit(r, err)
  IN IF ~wf THEN IllFormed("dispatch", {})
     ELSE LET c == IF ~has_value(exp) THEN Call(hs, <<value(exp)>>, cat)
                   ELSE Call(hs, <<error(exp)>>, cat)
              aborted == IF ~has_value(exp) THEN ~ensure_value(exp)
                         ELSE ~ensure_error(exp)
          IN Ran("dispatch", <<[idx |-> c.idx, args |-> c.args]>>,
                 Returned(r, c.ret), aborted)

\* if (exp.has_value()) visitor(std::forward<Exp>(exp).value())
\* else visitor(std::forward<Exp>(exp).error())
InspectExpected(r, exp, cat, hs) ==
  LET val == InvokeResult(hs, <<ArgType(ValT(exp), cat)>>)
      err == InvokeResult(hs, <<ArgType(ErrT(exp), cat)>>)
      wf == IF r = "deduce" THEN val = err
            ELSE ListInit(r, val) /\ ListInit(r, err)
  IN IF ~wf THEN IllFormed("dispatch", {})
     ELSE LET c == IF has_value(exp) THEN Call(hs, <<value(exp)>>, cat)
                   ELSE Call(hs, <<error(exp)>>, cat)
              aborted == IF has_value(exp) THEN ~ensure_value(exp)
                         ELSE ~ensure_error(exp)
          IN Ran("dispatch", <<[idx |-> c.idx, args |-> c.args]>>,
                 Returned(r, c.ret), aborted)

(***************************************************************************)
(* Inspect(subject, lambdas...): the six overloads and their enable_if     *)
(* conditions.                                                             *)
(***************************************************************************)
Overloads ==
  {"variant", "variant_diagnostic", "optional", "optional_diagnostic",
   "expected", "expected_diagnostic"}

EnableIf(o, s, cat, hs) ==
  CASE o = "variant" ->
         is_variant(Deduced(s, cat)) /\ is_exhaustive_variant(hs, VariantAlts)
    [] o = "variant_diagnostic" ->
         /\ is_variant(Deduced(s, cat))
         /\ ~is_exhaustive_variant(hs, VariantAlts)
    [] o = "optional" ->
         is_optional(Deduced(s, cat)) /\ is_exhaustive_optional(hs)
    [] o = "optional_diagnostic" ->
         is_optional(Deduced(s, cat)) /\ ~is_exhaustive_optional(hs)
    [] o = "expected" ->
         is_expected(Deduced(s, cat)) /\ is_exhaustive_expected(hs, s, cat)
    [] OTHER ->
         is_expected(Deduced(s, cat)) /\ ~is_exhaustive_expected(hs, s, cat)

ViableOverloads(s, cat, hs) == {o \in Overloads : EnableIf(o, s, cat, hs)}

Body(o, r, s, cat, hs) ==
  CASE o = "variant" -> InspectVariant(r, s, cat, hs)
    [] o = "variant_diagnostic" ->
         Diagnostic(variant_validator(hs, VariantAlts))
    [] o = "optional" -> InspectOptional(r, s, cat, hs)
    [] o = "optional_diagnostic" -> Diagnostic(optional_validator(hs))
    [] o = "expected" -> InspectExpected(r, s, cat, hs)
    [] OTHER -> Diagnostic(expected_validator(hs, s))

\* The call Inspect<R>(s, hs...): ill-formed unless exactly one overload is
\* viable, and then that overload's body.
Inspect(r, s, cat, hs) ==
  IF Cardinality(ViableOverloads(s, cat, hs)) # 1 THEN IllFormed("none", {})
  ELSE Body(CHOOSE o \in ViableOverloads(s, cat, hs) : TRUE, r, s, cat, hs)

(***************************************************************************)
(* The client program                                                      *)
(***************************************************************************)

\* The lambdas a call site may list, by the subject it inspects.
Pool(s) ==
  CASE s.shape = "variant" ->
         {hA_an, hAuto_a, hA_char, hB_char, hC_char, hA_rref, hB_str,
          hAuto_ref}
    [] s.shape = "optional" ->
         {hInt_print, hNone_print, hInt_fmt, hNone_lit, hAuto_a, hInt_rref}
    [] s.shape = "expected" /\ s.T # s.E ->
         {hInt_fmt, hErr_fmt, hErr_print, hAuto_a, hOk_fmt, hInt_rref}
    [] s.shape = "expected" ->
         {hOk_fmt, hError_fmt, hInt_fmt, hInt_print, hAuto_a}
    [] OTHER -> {hInt_print, hAuto_a}

\* A call site lists distinct lambdas: each is its own closure type, and
\* overloaded<> cannot inherit one type twice.
LambdaLists(s) ==
  {hs \in UNION {[1..n -> Pool(s)] : n \in 0..MaxLambdas} :
     \A i, j \in 1..Len(hs) : hs[i] = hs[j] => i = j}

\* The result types a call site may pin; "deduce" is detail::deduce_return_type.
RTypes(s) ==
  IF s.shape = "variant" THEN {"deduce", "string_view", "char", "void"}
  ELSE {"deduce", "string", "void"}

\* The subjects main.cpp constructs: a default-constructed variant (holding
\* A), my_opt = 42, my_result = Ok(100), another_result = Ok(55); and an int,
\* which Inspect has no overload for.  The call
\* site under study is fixed with the program: its lambdas, its R and whether
\* the subject is passed as an lvalue or as an rvalue (std::move(subject)).
Init ==
  /\ subject \in {Variant(0), Optional(TRUE, 42),
                  Result("int", "ErrorCode", Ok(Payload("int", 100))),
                  Result("int", "int", Ok(Payload("int", 55))),
                  Scalar(42)}
  /\ category \in {"lvalue", "rvalue"}
  /\ lambdas \in LambdaLists(subject)
  /\ R \in RTypes(subject)
  /\ outcome = NoOutcome
  /\ calls = 0

\* my_variant = C{};
AssignVariant(i) ==
  /\ is_variant(subject)
  /\ subject' = Variant(i)
  /\ outcome' = NoOutcome
  /\ calls' = 0
  /\ UNCHANGED <<category, lambdas, R>>

\* my_opt = 42;
AssignOptional(v) ==
  /\ is_optional(subject)
  /\ subject' = Optional(TRUE, v)
  /\ outcome' = NoOutcome
  /\ calls' = 0
  /\ UNCHANGED <<category, lambdas, R>>

\* my_opt = std::nullopt;
ResetOptional ==
  /\ is_optional(subject)
  /\ subject' = Nullopt
  /\ outcome' = NoOutcome
  /\ calls' = 0
  /\ UNCHANGED <<category, lambdas, R>>

\* my_result = adt::Ok(v);
AssignOk(v) ==
  /\ is_expected(subject)
  /\ subject' = [subject EXCEPT !.data = Ok(Payload(subject.T, v))]
  /\ outcome' = NoOutcome
  /\ calls' = 0
  /\ UNCHANGED <<category, lambdas, R>>

\* my_result = adt::Error(e);
AssignError(e) ==
  /\ is_expected(subject)
  /\ e \in (IF subject.E = "int" THEN IntVals ELSE ErrorCodes)
  /\ subject' = [subject EXCEPT !.data = Error(Payload(subject.E, e))]
  /\ outcome' = NoOutcome
  /\ calls' = 0
  /\ UNCHANGED <<category, lambdas, R>>

\* What moving from a payload leaves in it: an int, an enum value and an
\* empty struct are copied.
Moved(p) == p

\* AfterDispatch with a fault seeded: the optional's value is taken out and
\* the optional left empty, the variant left holding its first alternative.
AfterDispatch_reset(s, cat) ==
  CASE s.shape = "variant" -> Variant(0)
    [] s.shape = "optional" -> Nullopt
    [] OTHER -> s

\* The subject as the dispatch leaves it.  An lvalue subject hands the
\* handler a reference to its payload, which the handler copies; an rvalue
\* subject (std::forward of std::move(subject)) has its payload moved from,
\* and a moved-from variant, optional or Result holds the case it held.
AfterDispatch(s, cat) ==
  CASE cat = "lvalue" -> s
    [] s.shape = "variant" -> Variant(s.index)
    [] s.shape = "optional" -> Optional(s.has, Moved(s.v))
    [] s.shape = "expected" ->
         [s EXCEPT !.data = [type |-> s.data.type, v |-> Moved(s.data.v)]]
    [] OTHER -> s

\* InspectCall with a fault seeded: the call site works once per value; a
\* later call on the same value runs nothing.
InspectCall_once ==
  /\ calls < MaxCalls
  /\ outcome' = IF calls = 0 THEN Inspect(R, subject, category, lambdas)
                ELSE Diagnostic({})
  /\ subject' = AfterDispatch(subject, category)
  /\ calls' = calls + 1
  /\ UNCHANGED <<category, lambdas, R>>

\* adt::Inspect<R>(subject, lambdas...)
InspectCall ==
  /\ calls < MaxCalls
  /\ outcome' = Inspect(R, subject, category, lambdas)
  /\ subject' = AfterDispatch(subject, category)
  /\ calls' = calls + 1
  /\ UNCHANGED <<category, lambdas, R>>

Next ==
  \/ \E i \in 0..(Len(VariantAlts) - 1) : AssignVariant(i)
  \/ \E v \in IntVals : AssignOptional(v)
  \/ ResetOptional
  \/ \E v \in IntVals : AssignOk(v)
  \/ \E e \in IntVals \cup ErrorCodes : AssignError(e)
  \/ InspectCall

Spec == Init /\ [][Next]_vars

\* The same program without test_variant: the subject is the optional, one
\* of the two Results or the int.
InitValues == Init /\ ~is_variant(subject)

NextValues ==
  \/ \E v \in IntVals : AssignOptional(v)
  \/ ResetOptional
  \/ \E v \in IntVals : AssignOk(v)
  \/ \E e \in IntVals \cup ErrorCodes : AssignError(e)
  \/ InspectCall

SpecValues == InitValues /\ [][NextValues]_vars

\* test_variant alone: the subject is my_variant.
InitVariants == Init /\ is_variant(subject)

NextVariants ==
  \/ \E i \in 0..(Len(VariantAlts) - 1) : AssignVariant(i)
  \/ InspectCall

SpecVariants == InitVariants /\ [][NextVariants]_vars

TypeOK ==
  /\ subject.shape \in {"variant", "optional", "expected", "int"}
  /\ category \in {"lvalue", "rvalue"}
  /\ Len(lambdas) <= MaxLambdas
  /\ R \in RTypes(subject)
  /\ outcome.overload \in {"uncalled", "none", "dispatch", "diagnostic"}
  /\ calls \in 0..MaxCalls
  /\ (calls = 0) <=> (outcome = NoOutcome)

(***************************************************************************)
(* Vocabulary of the properties                                            *)
(***************************************************************************)

\* The call site has been compiled and, when accepted, run on the subject.
Called == outcome.overload # "uncalled"

\* The lambda at position i can be called with the arguments.
Accepts(i, argTypes) == Viable(lambdas[i], argTypes)

\* Some lambda of the list can be called with the arguments.
SomeHandler(argTypes) == \E i \in 1..Len(lambdas) : Accepts(i, argTypes)

\* Exactly one lambda of the list is the best match for the arguments: it can
\* be called with them and is a better match than every other that can.
UniqueBest(argTypes) ==
  \E i \in 1..Len(lambdas) :
    /\ Accepts(i, argTypes)
    /\ \A j \in 1..Len(lambdas) \ {i} :
         Accepts(j, argTypes) =>
           Better(lambdas[i], lambdas[j], argTypes)

\* The payload of the subject's active case, as an argument list.
ActiveArgs ==
  CASE subject.shape = "variant" ->
         <<[type |-> VariantAlts[subject.index + 1], v |-> 0]>>
    [] subject.shape = "optional" ->
         IF subject.has THEN <<[type |-> "int", v |-> subject.v]>> ELSE <<>>
    [] OTHER ->
         IF subject.T = subject.E THEN <<subject.data>>
         ELSE IF subject.data.type = "Ok<" \o subject.T \o ">"
              THEN <<[type |-> subject.T, v |-> subject.data.v]>>
              ELSE <<[type |-> subject.E, v |-> subject.data.v]>>

ActiveTypes ==
  [k \in 1..Len(ActiveArgs) |->
     [type |-> ActiveArgs[k].type, cat |-> category]]

\* The call ran exactly the lambda at position i, once, on the active payload.
RanOnly(i) == outcome.invoked = <<[idx |-> i, args |-> ActiveArgs]>>

\* The lambdas listed in another order.
Reordered(p) == [k \in 1..Len(lambdas) |-> lambdas[p[k]]]

(***************************************************************************)
(* C1                                                                      *)
(***************************************************************************)

\* Every alternative of the variant has a best handler in the overload set.
Covered ==
  \A k \in 1..Len(VariantAlts) : UniqueBest(<<DeclVal(VariantAlts[k])>>)

\* C1 as stated: a call on a variant is accepted if and only if every
\* alternative has at least one handler of the list that can be called with
\* it.  Stated for the calls whose result type cannot be what rejects them:
\* the result is deduced and all the lambdas return one type.
C1_AcceptedIffSomeHandler ==
  (/\ is_variant(subject)
   /\ Called
   /\ R = "deduce"
   /\ \A i, j \in 1..Len(lambdas) : lambdas[i].ret = lambdas[j].ret) =>
    (outcome.accepted <=>
       \A k \in 1..Len(VariantAlts) :
         SomeHandler(<<ArgType(VariantAlts[k], category)>>))

\* C1, amended: on a variant the dispatching overload is selected if and only
\* if overload resolution finds exactly one best handler for an rvalue of every
\* alternative; when some alternative has none (no viable handler, or a tie
\* between equally good ones) the call is rejected with a static assertion, so
\* every accepted call is covered; and neither the overload selected nor the
\* acceptance depends on the order of the list.
C1_DispatchIffCovered ==
  (is_variant(subject) /\ Called) =>
    /\ (outcome.overload = "dispatch") <=> Covered
    /\ ~Covered => (~outcome.accepted /\ outcome.asserts # {})
    /\ outcome.accepted => Covered
    /\ \A p \in Permutations(1..Len(lambdas)) :
         LET o == Inspect(R, subject, category, Reordered(p))
         IN o.overload = outcome.overload /\ o.accepted = outcome.accepted

\* A variant<A,B,C> call that lists the three handlers out of declaration
\* order and is accepted, with C active.
C1_Witness ==
  /\ is_variant(subject)
  /\ subject.index = 2
  /\ lambdas = <<hC_char, hA_char, hB_char>>
  /\ outcome.accepted
  /\ outcome.overload = "dispatch"

(***************************************************************************)
(* C2                                                                      *)
(***************************************************************************)

\* C2: every accepted call invokes exactly one handler exactly once, a handler
\* that takes the active case's payload (no argument for the absent case), and
\* returns that handler's result, as R when R is pinned.
C2_ExactlyOneHandler ==
  outcome.accepted =>
    /\ Len(outcome.invoked) = 1
    /\ outcome.invoked[1].args = ActiveArgs
    /\ outcome.invoked[1].idx \in 1..Len(lambdas)
    /\ Accepts(outcome.invoked[1].idx, ActiveTypes)
    /\ outcome.ret =
         [type |-> IF R = "deduce" THEN lambdas[outcome.invoked[1].idx].ret
                   ELSE R,
          val |-> Apply(lambdas[outcome.invoked[1].idx], ActiveArgs)]

(***************************************************************************)
(* C3                                                                      *)
(***************************************************************************)

\* The positions of the lambdas that take exactly the active alternative's
\* type and can be called with it as the variant is passed.
ExplicitForActive ==
  {i \in 1..Len(lambdas) :
     lambdas[i].param = ActiveArgs[1].type /\ Accepts(i, ActiveTypes)}

\* C3 as stated: when several handlers can be called for the active case, the
\* one an accepted call on a variant invokes is the first of them in the list.
C3_FirstInDeclarationOrder ==
  (is_variant(subject) /\ outcome.accepted) =>
    \A j \in 1..Len(lambdas) :
      Accepts(j, ActiveTypes) => outcome.invoked[1].idx <= j

\* C3, amended: when several handlers can be called for the active case, an
\* accepted call on a variant invokes the one overload resolution ranks best,
\* wherever it stands in the list: a handler taking exactly the active
\* alternative's type if one is callable, the wildcard only when none is; and a
\* list in which two handlers take the same alternative type is rejected.
C3_BestMatchAnyOrder ==
  (is_variant(subject) /\ Called) =>
    /\ outcome.accepted =>
         /\ Len(outcome.invoked) = 1
         /\ ExplicitForActive # {} =>
              outcome.invoked[1].idx \in ExplicitForActive
         /\ ExplicitForActive = {} =>
              lambdas[outcome.invoked[1].idx].param = "auto"
    /\ (\E i, j \in 1..Len(lambdas) :
          /\ i # j
          /\ lambdas[i].param = lambdas[j].param
          /\ \E k \in 1..Len(VariantAlts) : lambdas[i].param = VariantAlts[k])
       => ~outcome.accepted

\* An accepted call that lists the wildcard before the handler for A and, with
\* A active, runs the handler for A, the second of two callable handlers.
C3_Witness ==
  /\ is_variant(subject)
  /\ subject.index = 0
  /\ lambdas = <<hAuto_a, hA_an>>
  /\ outcome.accepted
  /\ RanOnly(2)

(***************************************************************************)
(* C4                                                                      *)
(***************************************************************************)

\* The list is explicit handlers, one per type, followed by the wildcard.
ExplicitThenWildcard ==
  /\ Len(lambdas) >= 1
  /\ lambdas[Len(lambdas)].param = "auto"
  /\ \A i \in 1..(Len(lambdas) - 1) : lambdas[i].param \notin {"auto", "none"}
  /\ \A i, j \in 1..(Len(lambdas) - 1) :
       lambdas[i].param = lambdas[j].param => i = j

C5_PresentOrAbsent ==
  (is_optional(subject) /\ Called) =>
    /\ outcome.accepted =>
         /\ Len(outcome.invoked) = 1
         /\ outcome.invoked[1].args = ActiveArgs
         /\ (lambdas[outcome.invoked[1].idx].param = "none") <=> ~subject.has
    /\ (lambdas = <<hInt_fmt, hNone_lit>> /\ R = "string") =>
         /\ outcome.accepted
         /\ subject.has => RanOnly(1)
         /\ subject = Optional(TRUE, 42) =>
              outcome.ret = [type |-> "string", val |-> "Value: 42"]
         /\ ~subject.has =>
              /\ RanOnly(2)
              /\ outcome.ret = [type |-> "string", val |-> "No Value"]

\* test_optional's second call: the optional has been reset and the call
\* yields "No Value".
C5_Witness ==
  /\ subject = Nullopt
  /\ lambdas = <<hInt_fmt, hNone_lit>>
  /\ R = "string"
  /\ outcome.accepted
  /\ outcome.ret.val = "No Value"

(***************************************************************************)
(* C6                                                                      *)
(***************************************************************************)

ByValue == \A i \in 1..Len(lambdas) : lambdas[i].mode = "val"

\* The Result holds its success case.
InSuccess == subject.data.type = "Ok<" \o subject.T \o ">"

C8_SameTypeWrappers ==
  (is_expected(subject) /\ subject.T = subject.E /\ Called) =>
    /\ ValT(subject) = "Ok<int>" /\ ErrT(subject) = "Error<int>"
    /\ InSuccess => value(subject) = [type |-> "Ok<int>", v |-> subject.data.v]
    /\ ~InSuccess =>
         error(subject) = [type |-> "Error<int>", v |-> subject.data.v]
    /\ (ByValue /\ outcome.accepted) => Len(outcome.invoked) = 1
    /\ (outcome.accepted /\ outcome.invoked # <<>>) =>
         /\ Len(outcome.invoked) = 1
         /\ outcome.invoked[1].args = <<subject.data>>
         /\ ~outcome.aborted
         /\ lambdas[outcome.invoked[1].idx].param
              \in {subject.data.type, "auto"}
    /\ (lambdas = <<hOk_fmt, hError_fmt>> /\ R = "string") =>
         /\ outcome.accepted
         /\ InSuccess =>
              /\ RanOnly(1)
              /\ outcome.ret.val = "Value: " \o ToString(subject.data.v)
         /\ subject.data = [type |-> "Ok<int>", v |-> 55] =>
              outcome.ret = [type |-> "string", val |-> "Value: 55"]
         /\ ~InSuccess =>
              /\ RanOnly(2)
              /\ outcome.ret.val = "Error: " \o ToString(subject.data.v)

\* another_result = Ok(55) with the two wrapper handlers: the Ok handler runs.
C8_Witness ==
  /\ is_expected(subject)
  /\ subject.T = subject.E
  /\ subject.data = [type |-> "Ok<int>", v |-> 55]
  /\ lambdas = <<hOk_fmt, hError_fmt>>
  /\ R = "string"
  /\ outcome.accepted
  /\ RanOnly(1)
  /\ outcome.ret.val = "Value: 55"

(***************************************************************************)
(* C9                                                                      *)
(***************************************************************************)

\* C9: a call on a Result<int,int> whose handlers all take the bare payload
\* type int is rejected with a static assertion and runs nothing.
C9_BareHandlersRejected ==
  (/\ is_expected(subject)
   /\ subject.T = subject.E
   /\ Called
   /\ lambdas # <<>>
   /\ \A i \in 1..Len(lambdas) : lambdas[i].param = subject.T) =>
    /\ ~outcome.accepted
    /\ outcome.asserts # {}
    /\ outcome.invoked = <<>>

\* Two [](int) handlers on another_result: rejected, with an assertion for
\* each wrapper type.
C9_Witness ==
  /\ is_expected(subject)
  /\ subject.T = subject.E
  /\ lambdas = <<hInt_fmt, hInt_print>>
  /\ Called
  /\ ~outcome.accepted
  /\ outcome.asserts = {"Ok<int>", "Error<int>"}

(***************************************************************************)
(* C10                                                                     *)
(***************************************************************************)

\* std::is_convertible_v<From, R> over the result types of the lambdas.
IsConvertible(from, r) ==
  \/ Decay(from) = r
  \/ r = "string" /\ from = "cstr"
  \/ r = "string_view" /\ Decay(from) \in {"cstr", "string"}

\* Every alternative has a best handler for the variant as it is passed.
CoveredAsPassed ==
  \A k \in 1..Len(VariantAlts) :
    UniqueBest(<<ArgType(VariantAlts[k], category)>>)

\* The result type of the handler selected for alternative k.
SelectedRet(k) ==
  lambdas[CHOOSE i \in 1..Len(lambdas) :
            /\ Accepts(i, <<ArgType(VariantAlts[k], category)>>)
            /\ \A j \in 1..Len(lambdas) \ {i} :
                 Accepts(j, <<ArgType(VariantAlts[k], category)>>) =>
                   Better(lambdas[i], lambdas[j],
                          <<ArgType(VariantAlts[k], category)>>)].ret

\* C10: with a pinned R a call on a variant is accepted exactly when coverage
\* holds and, for every alternative, the selected handler's result type is
\* convertible to R or R is void, also when the handlers return different
\* types; and the accepted call returns the invoked handler's result as an R.
C10_PinnedAcceptedIffConvertible ==
  (is_variant(subject) /\ Called /\ R # "deduce") =>
    /\ outcome.accepted <=>
         /\ Covered
         /\ CoveredAsPassed
         /\ \A k \in 1..Len(VariantAlts) :
              R = "void" \/ IsConvertible(SelectedRet(k), R)
    /\ outcome.accepted =>
         /\ Len(outcome.invoked) = 1
         /\ outcome.ret =
              [type |-> R,
               val |-> Apply(lambdas[outcome.invoked[1].idx], ActiveArgs)]

(***************************************************************************)
(* C11                                                                     *)
(***************************************************************************)

\* The argument lists of the subject's cases, as the subject is passed: one
\* per alternative, the value and the empty state, or value() and error().
CaseTypes ==
  CASE subject.shape = "variant" ->
         {<<ArgType(VariantAlts[k], category)>> : k \in 1..Len(VariantAlts)}
    [] subject.shape = "optional" -> {<<ArgType(ValueType, category)>>, <<>>}
    [] OTHER -> {<<ArgType(ValT(subject), category)>>,
                 <<ArgType(ErrT(subject), category)>>}

\* Every case has a best handler for the subject as it is passed.
CasesCallable == \A a \in CaseTypes : UniqueBest(a)

\* The result types of the handlers selected for the cases.
CaseRets == {lambdas[Selected(lambdas, a)].ret : a \in CaseTypes}

\* std::common_type over the result types of the lambdas: "none" when there
\* is none.
CommonType(types) ==
  LET decayed == {Decay(t) : t \in types}
  IN IF Cardinality(decayed) = 1 THEN CHOOSE t \in decayed : TRUE
     ELSE IF decayed = {"cstr", "string"} THEN "string"
     ELSE "none"

NamedCase(t) == IF t = "None" THEN <<>> ELSE <<DeclVal(t)>>

\* C12: whenever the diagnostic overload is the one selected, for an lvalue
\* or an rvalue subject of any of the three shapes, the call is rejected with
\* at least one static assertion, every assertion names the payload type of a
\* case with no invocable handler, and no handler runs; so no call compiles
\* into one that invokes nothing and returns nothing.
C12_DiagnosticAlwaysAsserts ==
  (Called /\ outcome.overload = "diagnostic") =>
    /\ outcome.asserts # {}
    /\ ~outcome.accepted
    /\ \A t \in outcome.asserts : ~UniqueBest(NamedCase(t))

(***************************************************************************)
(* C13                                                                     *)
(***************************************************************************)

C14_NoAbortPath ==
  (is_expected(subject) /\ Called) =>
    /\ ~outcome.aborted
    /\ has_value(subject) # has_error(subject)
    /\ \A k \in 1..Len(outcome.invoked) :
         /\ outcome.invoked[k].args[1].type = ValT(subject) =>
              (has_value(subject) /\ ensure_value(subject))
         /\ outcome.invoked[k].args[1].type = ErrT(subject) =>
              (has_error(subject) /\ ensure_error(subject))

\* another_result reassigned from Ok(55) to Error(42): the Error<int> handler
\* runs and nothing aborts.
C14_Witness ==
  /\ is_expected(subject)
  /\ subject.T = subject.E
  /\ subject.data = [type |-> "Error<int>", v |-> 42]
  /\ lambdas = <<hOk_fmt, hError_fmt>>
  /\ outcome.accepted
  /\ RanOnly(2)
  /\ ~outcome.aborted

(***************************************************************************)
(* C15                                                                     *)
(***************************************************************************)

Classes(t) ==
  {c \in {"variant", "optional", "expected"} :
     CASE c = "variant" -> is_variant(t)
       [] c = "optional" -> is_optional(t)
       [] OTHER -> is_expected(t)}

\* The shape an Inspect overload is written for.
Family(o) ==
  CASE o \in {"variant", "variant_diagnostic"} -> "variant"
    [] o \in {"optional", "optional_diagnostic"} -> "optional"
    [] OTHER -> "expected"

\* C16: the subject's type is of at most one of the shapes variant, optional
\* and success/failure (of none: unrecognized), and of the same ones with any
\* const or reference qualification on it; the viable Inspect overloads all
\* belong to that shape; for a recognized type exactly one of them is viable,
\* the dispatching or the diagnostic one, and for an unrecognized type none
\* is, so the call is rejected.
C16_OneClassOneOverload ==
  /\ Cardinality(Classes(subject)) <= 1
  /\ \A q \in Quals : Classes(Ref(q, subject)) = Classes(subject)
  /\ Classes(Deduced(subject, category)) = Classes(subject)
  /\ LET viable == ViableOverloads(subject, category, lambdas)
     IN /\ \A o \in viable : Family(o) \in Classes(subject)
        /\ Classes(subject) # {} => Cardinality(viable) = 1
        /\ Classes(subject) = {} => viable = {}
  /\ (Called /\ Classes(subject) # {}) =>
       outcome.overload \in {"dispatch", "diagnostic"}
  /\ (Called /\ Classes(subject) = {}) =>
       (outcome.overload = "none" /\ ~outcome.accepted)

\* Inspect(42, [](int) {...}, [](auto) {...}): an int is of no shape and the
\* call has no viable overload.
C16_Witness ==
  /\ subject = Scalar(42)
  /\ Classes(subject) = {}
  /\ lambdas = <<hInt_print, hAuto_a>>
  /\ Called
  /\ outcome.overload = "none"
  /\ ~outcome.accepted

(***************************************************************************)
(* C17                                                                     *)
(***************************************************************************)

\* The active case of a subject: the variant's index(), whether the optional
\* holds a value, the Result's has_value().
ActiveCase(s) ==
  CASE s.shape = "variant" -> <<"index", s.index>>
    [] s.shape = "optional" -> <<"has_value", s.has>>
    [] s.shape = "expected" -> <<"has_value", has_value(s)>>
    [] OTHER -> <<"none", FALSE>>

\* C17: a call on an lvalue subject leaves its active case as it was when the
\* call started, and the handler an accepted call runs is given the payload
\* of that case.
C17_ActiveCaseUnchanged ==
  [][(calls' = calls + 1 /\ category = "lvalue") =>
       /\ ActiveCase(subject') = ActiveCase(subject)
       /\ (outcome'.accepted /\ outcome'.invoked # <<>>) =>
            /\ Len(outcome'.invoked) = 1
            /\ outcome'.invoked[1].args = ActiveArgs]_vars

\* my_opt holding 55, inspected as an lvalue with test_optional's handlers:
\* the value handler has run and my_opt still holds 55.
C17_Witness ==
  /\ category = "lvalue"
  /\ subject = Optional(TRUE, 55)
  /\ lambdas = <<hInt_fmt, hNone_lit>>
  /\ R = "string"
  /\ outcome.accepted
  /\ RanOnly(1)
  /\ outcome.ret.val = "Value: 55"

(***************************************************************************)
(* The earlier revisions of Inspect for std::variant: src/inspect.hh        *)
(* (C++20, one constrained function template) and                          *)
(* algebraic_datatype.hh (the minimal one).                                *)
(***************************************************************************)

\* src/inspect.hh: (std::invocable<Visitor, Alts> && ...)
is_exhaustive_for_variant(hs, alts) ==
  \A k \in 1..Len(alts) : is_invocable(hs, <<DeclVal(alts[k])>>)

\* The concept: both arguments stripped of their qualification.
MatchesAllVariants(t, hs) ==
  is_variant_impl(remove_cvref_t(t))
    /\ is_exhaustive_for_variant(hs, VariantAlts)

\* FAZA 1: one static assertion per alternative the visitor cannot take.
diagnose_missing(hs, alts) ==
  {alts[k] : k \in {n \in 1..Len(alts) :
                      ~is_invocable(hs, <<DeclVal(alts[n])>>)}}

\* FAZA 2: every alternative's result converts to the pinned R, or R is void.
diagnose_return_type(r, hs, alts) ==
  {alts[k] : k \in {n \in 1..Len(alts) :
     ~(\/ IsConvertible(InvokeResult(hs, <<DeclVal(alts[n])>>), r)
       \/ r = "void")}}

\* std::visit<R>: every alternative's call converts to R; with R void the
\* result is discarded.
VisitRWellFormed(r, hs, alts, cat) ==
  /\ \A k \in 1..Len(alts) : is_invocable(hs, <<ArgType(alts[k], cat)>>)
  /\ \A k \in 1..Len(alts) :
       \/ r = "void"
       \/ IsConvertible(InvokeResult(hs, <<ArgType(alts[k], cat)>>), r)

\* The C++20 Inspect: requires VariantType<Variant> && sizeof...(Lambdas) >= 1,
\* then the three phases.  It returns decltype(auto): what std::visit returns,
\* a reference as a reference.
Inspect_cpp20(r, s, cat, hs) ==
  IF ~(is_variant(Deduced(s, cat)) /\ Len(hs) >= 1) THEN IllFormed("none", {})
  ELSE IF ~MatchesAllVariants(Deduced(s, cat), hs)
  THEN IllFormed("diagnostic", diagnose_missing(hs, VariantAlts))
  ELSE IF r # "deduce" /\ diagnose_return_type(r, hs, VariantAlts) # {}
  THEN IllFormed("dispatch", diagnose_return_type(r, hs, VariantAlts))
  ELSE IF r = "deduce" /\ ~VisitWellFormed(hs, VariantAlts, cat)
  THEN IllFormed("dispatch", {})
  ELSE IF r # "deduce" /\ ~VisitRWellFormed(r, hs, VariantAlts, cat)
  THEN IllFormed("dispatch", {})
  ELSE LET c == Visit(hs, s, cat)
       IN Ran("dispatch", <<[idx |-> c.idx, args |-> c.args]>>,
              IF r = "deduce" THEN c.ret
              ELSE [type |-> r, val |-> IF r = "void" THEN "" ELSE c.ret.val],
              FALSE)

\* is_exhaustive_for_variant_minimal with a fault seeded: the fold taken with
\* ||, not &&.
is_exhaustive_for_variant_minimal_any(hs, alts) ==
  \E k \in 1..Len(alts) : is_invocable(hs, <<DeclVal(alts[k])>>)

\* algebraic_datatype.hh: (std::invocable<Visitor, Alts> && ...), false for a
\* type that is no std::variant.
is_exhaustive_for_variant_minimal(hs, alts) ==
  \A k \in 1..Len(alts) : is_invocable(hs, <<DeclVal(alts[k])>>)

MatchesAllVariants_minimal(t, hs) ==
  is_variant_impl(remove_cvref_t(t))
    /\ is_exhaustive_for_variant_minimal(hs, VariantAlts)

\* The minimal Inspect: requires MatchesAllVariants, returns std::visit(...)
\* as decltype(auto); it has no result type parameter.
Inspect_minimal(s, cat, hs) ==
  IF ~MatchesAllVariants_minimal(Deduced(s, cat), hs)
  THEN IllFormed("none", {})
  ELSE IF ~VisitWellFormed(hs, VariantAlts, cat) THEN IllFormed("dispatch", {})
  ELSE LET c == Visit(hs, s, cat)
       IN Ran("dispatch", <<[idx |-> c.idx, args |-> c.args]>>, c.ret, FALSE)

(***************************************************************************)
(* C18                                                                     *)
(***************************************************************************)

\* The three revisions find the same handler lists exhaustive for the
\* variant, accept the same calls with a deduced result type and run the same
\* handler on the same payload.
SameVerdictAndHandler ==
  LET o17 == Inspect("deduce", subject, category, lambdas)
      o20 == Inspect_cpp20("deduce", subject, category, lambdas)
      omin == Inspect_minimal(subject, category, lambdas)
  IN /\ is_exhaustive_variant(lambdas, VariantAlts)
          = MatchesAllVariants(Deduced(subject, category), lambdas)
     /\ is_exhaustive_variant(lambdas, VariantAlts)
          = MatchesAllVariants_minimal(Deduced(subject, category), lambdas)
     /\ o17.accepted = o20.accepted /\ o17.accepted = omin.accepted
     /\ o17.invoked = o20.invoked /\ o17.invoked = omin.invoked
     /\ ~is_exhaustive_variant(lambdas, VariantAlts) =>
          (~o17.accepted /\ ~o20.accepted /\ ~omin.accepted)

\* C18 as stated: on a variant the three revisions give the same verdict, run
\* the same handler and return the same result.
C18_RevisionsAgree ==
  (is_variant(subject) /\ Called /\ R = "deduce") =>
    /\ SameVerdictAndHandler
    /\ outcome.ret = Inspect_cpp20("deduce", subject, category, lambdas).ret
    /\ outcome.ret = Inspect_minimal(subject, category, lambdas).ret

\* C18, amended: on a variant the three revisions give the same verdict,
\* accept the same calls with a deduced result type, run the same handler on
\* the same payload and return results of equal value; the C++20 and the
\* minimal revision return the same type, the handler's own, a reference when
\* the handler returns one, and the C++17 revision returns that type decayed,
\* a copy of what the reference refers to.
C18_RevisionsAgreeUpToDecay ==
  (is_variant(subject) /\ Called /\ R = "deduce") =>
    LET o20 == Inspect_cpp20("deduce", subject, category, lambdas)
        omin == Inspect_minimal(subject, category, lambdas)
    IN /\ SameVerdictAndHandler
       /\ outcome = Inspect("deduce", subject, category, lambdas)
       /\ o20.ret = omin.ret
       /\ outcome.ret.val = o20.ret.val
       /\ outcome.ret.type = Decay(o20.ret.type)
       /\ outcome.accepted =>
            o20.ret.type = lambdas[outcome.invoked[1].idx].ret

\* One generic handler returning a const std::string &: the C++17 revision
\* returns a std::string, the C++20 revision the reference.
C18_Witness ==
  /\ is_variant(subject)
  /\ lambdas = <<hAuto_ref>>
  /\ R = "deduce"
  /\ outcome.accepted
  /\ outcome.ret = [type |-> "string", val |-> "an"]
  /\ Inspect_cpp20("deduce", subject, category, lambdas).ret
       = [type |-> "string_ref", val |-> "an"]

====
